---- MODULE Spec2Model ----
(***************************************************************************)
(* GemStrategy: the return-computation and caching engine                  *)
(* (StooqDataFetcher in main.py, helpers in error_handling.py) and the GEM *)
(* selector (StrategyService.calculate_gem_strategy).                      *)
(*                                                                         *)
(* Representation                                                          *)
(*   - a ticker argument is a record [isstr, chars]; chars is the sequence *)
(*     of its characters, "LF" standing for the newline character;         *)
(*   - a reference-date argument is <<kind, y, m, d>>: kind "ymd" is the   *)
(*     text "y-m-d" (digits in the %Y-%m-%d layout, any numbers), "text"   *)
(*     is a string that is not in that layout, "none" is the value None;   *)
(*   - a calendar date is <<y, m, d>>;                                     *)
(*   - a float is [nan, num, den] (an exact fraction num/den, den > 0, or  *)
(*     NaN); an Optional is <<>> (None) or <<x>>;                          *)
(*   - the reply of the quote source is [kind, columns, dates_ok, rows].   *)
(***************************************************************************)
EXTENDS Integers, Sequences, FiniteSets, TLC

\* ---------------------------------------------------------------- bounds
MaxYear == 2025      \* reference dates range over 2023-01-01 .. MaxYear-12-31
MaxRows == 2         \* rows of a fetched table
MaxCalls == 3        \* get_return calls in one behaviour
MaxTime == 6         \* hours on the clock
MaxEntries == 3      \* entries of results_data
MaxRepeats == 1      \* calls for a key used before, in a run that fills the memo

\* ------------------------------------------------------------ constants
CACHE_TTL == 4       \* cache_ttl_hours, in hours
maxsize == 32        \* lru_cache(maxsize=32)

\* ------------------------------------------------------------- optional
None == <<>>
Some(x) == <<x>>

\* --------------------------------------------------------------- floats
RECURSIVE GCD(_, _)
GCD(a, b) == IF b = 0 THEN a ELSE GCD(b, a % b)

Abs(x) == IF x < 0 THEN -x ELSE x

\* the fraction n/d (d > 0) in lowest terms: equal numbers, equal values
F(n, d) == [nan |-> FALSE, num |-> n \div GCD(Abs(n), d), den |-> d \div GCD(Abs(n), d)]
NaN == [nan |-> TRUE, num |-> 0, den |-> 1]

\* x <= 0 on floats: False whenever x is NaN
FloatLE0(x) == ~x.nan /\ x.num <= 0

\* x == 0 on floats
FloatEQ0(x) == ~x.nan /\ x.num = 0

\* numerator / denominator for a non-zero denominator (NaN is contagious)
FloatDiv(n, d) ==
  IF n.nan \/ d.nan THEN NaN
  ELSE IF d.num > 0 THEN F(n.num * d.den, n.den * d.num)
  ELSE F(-(n.num * d.den), -(n.den * d.num))

FloatSub1(x) == IF x.nan THEN NaN ELSE F(x.num - x.den, x.den)
FloatMul100(x) == IF x.nan THEN NaN ELSE F(100 * x.num, x.den)

\* a > b on floats: False whenever one side is NaN
FloatGT(a, b) == ~a.nan /\ ~b.nan /\ a.num * b.den > b.num * a.den

\* a >= b on floats: False whenever one side is NaN
FloatGE(a, b) == ~a.nan /\ ~b.nan /\ a.num * b.den >= b.num * a.den

\* ---------------------------------------------------------------- cells
\* one cell of the price column as pandas hands it over:
\* a number, NaN (an empty cell) or text; "none" is the Python value None
Cell(k, v) == [k |-> k, v |-> v]

\* error_handling.safe_float_conversion
safe_float_conversion(value, default) ==
  IF value.k = "none" THEN default
  ELSE IF value.k = "num" THEN F(value.v, 1)
  ELSE IF value.k = "nan" THEN NaN
  ELSE default

\* safe_divide with the operands of the division exchanged
safe_divide_swapped(numerator, denominator, default) ==
  IF FloatEQ0(denominator) THEN default ELSE FloatDiv(denominator, numerator)

\* error_handling.safe_divide
safe_divide(numerator, denominator, default) ==
  IF FloatEQ0(denominator) THEN default ELSE FloatDiv(numerator, denominator)

\* ------------------------------------------------------- calendar dates
IsLeap(y) == (y % 4 = 0 /\ y % 100 # 0) \/ y % 400 = 0

DaysInMonth(y, m) ==
  IF m = 2 THEN (IF IsLeap(y) THEN 29 ELSE 28)
  ELSE IF m \in {4, 6, 9, 11} THEN 30 ELSE 31

Min(a, b) == IF a <= b THEN a ELSE b

\* the month decremented, the day of the month left as it is
SubOneMonth_unclipped(date) ==
  LET y == IF date[2] = 1 THEN date[1] - 1 ELSE date[1]
      m == IF date[2] = 1 THEN 12 ELSE date[2] - 1
  IN  <<y, m, date[3]>>

\* date - pd.DateOffset(months=1): the same day of the preceding month,
\* clipped to that month's last day
SubOneMonth(date) ==
  LET y == IF date[2] = 1 THEN date[1] - 1 ELSE date[1]
      m == IF date[2] = 1 THEN 12 ELSE date[2] - 1
  IN  <<y, m, Min(date[3], DaysInMonth(y, m))>>

\* date - pd.DateOffset(years=1): same month and day a year earlier,
\* 29 February clipped to 28 February
SubOneYear(date) ==
  <<date[1] - 1, date[2], Min(date[3], DaysInMonth(date[1] - 1, date[2]))>>

\* date + pd.DateOffset(days=1)
AddOneDay(date) ==
  IF date[3] < DaysInMonth(date[1], date[2]) THEN <<date[1], date[2], date[3] + 1>>
  ELSE IF date[2] < 12 THEN <<date[1], date[2] + 1, 1>>
  ELSE <<date[1] + 1, 1, 1>>

\* a <= b on timestamps
DateLE(a, b) ==
  \/ a[1] < b[1]
  \/ a[1] = b[1] /\ a[2] < b[2]
  \/ a[1] = b[1] /\ a[2] = b[2] /\ a[3] <= b[3]

\* ----------------------------------------------------------- validation
\* datetime.strptime(date_str, '%Y-%m-%d')
strptime(date_str) ==
  IF date_str[1] = "none" THEN [exc |-> "TypeError", date |-> <<0, 0, 0>>]
  ELSE IF date_str[1] = "text" THEN [exc |-> "ValueError", date |-> <<0, 0, 0>>]
  ELSE IF /\ date_str[2] \in 1..9999
          /\ date_str[3] \in 1..12
          /\ date_str[4] \in 1..DaysInMonth(date_str[2], date_str[3])
       THEN [exc |-> "", date |-> <<date_str[2], date_str[3], date_str[4]>>]
  ELSE [exc |-> "ValueError", date |-> <<0, 0, 0>>]

\* error_handling.validate_date_string: only ValueError is caught
validate_date_string(date_str) ==
  LET r == strptime(date_str)
  IN  IF r.exc = "" THEN [exc |-> "", ok |-> TRUE]
      ELSE IF r.exc = "ValueError" THEN [exc |-> "", ok |-> FALSE]
      ELSE [exc |-> r.exc, ok |-> FALSE]

\* a character of the class [A-Za-z0-9.]
InClass(c) == c \in {"a", "7", "."}

\* re.match(r'^[A-Za-z0-9.]+$', ticker): '$' matches at the end of the
\* string and also just before a newline that ends the string
re_match(chars) ==
  \E n \in 1..Len(chars) :
     /\ \A i \in 1..n : InClass(chars[i])
     /\ \/ n = Len(chars)
        \/ n = Len(chars) - 1 /\ chars[Len(chars)] = "LF"

\* error_handling.validate_ticker
validate_ticker(ticker) ==
  IF ticker.chars = <<>> \/ ~ticker.isstr THEN FALSE
  ELSE re_match(ticker.chars)

\* ------------------------------------------------------ the quote source
\* what cffi_requests.get / raise_for_status / pd.read_csv produce:
\* kind "transport" (get raises a RequestException), "status" (raise_for_status raises),
\* "unparseable" (read_csv raises) or "table" (a DataFrame)
Failure(kind) == [kind |-> kind, columns |-> {}, dates_ok |-> TRUE, rows |-> <<>>]
Table(columns, dates_ok, rows) ==
  [kind |-> "table", columns |-> columns, dates_ok |-> dates_ok, rows |-> rows]
Row(date, close, zamkniecie) == [Data |-> date, Close |-> close, Zamkniecie |-> zamkniecie]

\* ----------------------------------------- _get_12m_return_stooq_cached
AbsentValue == [ret |-> None, start |-> None, end |-> None, hist |-> None]

\* df.sort_values(by="Data"): ascending by date; the sort sees the dates
\* only, so rows that share a date stay in the order they were fetched in
InsertRow(row, s) ==
  LET k == Cardinality({i \in 1..Len(s) : DateLE(s[i].Data, row.Data)})
  IN  SubSeq(s, 1, k) \o <<row>> \o SubSeq(s, k + 1, Len(s))

\* the rows left in the order they were fetched in
sort_values_unsorted(rows) == rows

RECURSIVE sort_values(_)
sort_values(rows) ==
  IF rows = <<>> THEN <<>>
  ELSE InsertRow(rows[Len(rows)], sort_values(SubSeq(rows, 1, Len(rows) - 1)))

\* df.empty or neither price column present
no_data(df) ==
  df.rows = <<>> \/ ("Close" \notin df.columns /\ "Zamkniecie" \notin df.columns)

close_col(df) == IF "Close" \in df.columns THEN "Close" ELSE "Zamkniecie"

\* df["Data"] = pd.to_datetime(df["Data"]) raises
date_column_error(df) == "Data" \notin df.columns \/ ~df.dates_ok

end_date(reference_date) == SubOneMonth(reference_date)

start_date(reference_date) == AddOneDay(SubOneYear(end_date(reference_date)))

\* (df["Data"] >= start_date) & (df["Data"] <= end_date)
InWindow(d, reference_date) ==
  DateLE(start_date(reference_date), d) /\ DateLE(d, end_date(reference_date))

df_12m(df, reference_date) ==
  SelectSeq(sort_values(df.rows), LAMBDA r : InWindow(r.Data, reference_date))

historical_data(df12, col) ==
  [i \in 1..Len(df12) |-> [date |-> df12[i].Data, price |-> df12[i][col]]]

first_price(df12, col) == safe_float_conversion(df12[1][col], F(0, 1))
last_price(df12, col) == safe_float_conversion(df12[Len(df12)][col], F(0, 1))

return_percentage(first, last) ==
  FloatMul100(FloatSub1(safe_divide(last, first, F(1, 1))))

\* the price guard returning the dates without a return
compute_return_partial(df12, col) ==
  IF df12 = <<>> THEN AbsentValue
  ELSE IF FloatLE0(first_price(df12, col)) \/ FloatLE0(last_price(df12, col))
       THEN [ret |-> None, start |-> Some(df12[1].Data),
             end |-> Some(df12[Len(df12)].Data), hist |-> None]
  ELSE [ret   |-> Some(return_percentage(first_price(df12, col), last_price(df12, col))),
        start |-> Some(df12[1].Data),
        end   |-> Some(df12[Len(df12)].Data),
        hist  |-> Some(historical_data(df12, col))]

\* lines 132-155: the value computed from the selected rows
compute_return(df12, col) ==
  IF df12 = <<>> THEN AbsentValue
  ELSE IF FloatLE0(first_price(df12, col)) \/ FloatLE0(last_price(df12, col))
       THEN AbsentValue
  ELSE [ret   |-> Some(return_percentage(first_price(df12, col), last_price(df12, col))),
        start |-> Some(df12[1].Data),
        end   |-> Some(df12[Len(df12)].Data),
        hist  |-> Some(historical_data(df12, col))]

\* what one execution of the body does: exc is the exception that leaves it
\* ("" when it returns), value the tuple returned, fetched the number of
\* requests sent, window the local variables of lines 125-130 when reached
Outcome(exc, value, fetched, window) ==
  [exc |-> exc, value |-> value, fetched |-> fetched, window |-> window]

\* the body of _get_12m_return_stooq_cached, response being the answer of
\* the quote source to the request of line 101
get_12m_return_stooq(ticker, reference_date_str, response) ==
  IF ~validate_ticker(ticker) THEN Outcome("", AbsentValue, 0, None)
  ELSE IF validate_date_string(reference_date_str).exc # ""
       THEN Outcome(validate_date_string(reference_date_str).exc, AbsentValue, 0, None)
  ELSE IF ~validate_date_string(reference_date_str).ok
       THEN Outcome("", AbsentValue, 0, None)
  ELSE IF strptime(reference_date_str).exc # "" THEN Outcome("", AbsentValue, 0, None)
  ELSE IF response.kind # "table" THEN Outcome("", AbsentValue, 1, None)
  ELSE IF no_data(response) THEN Outcome("", AbsentValue, 1, None)
  ELSE IF date_column_error(response) THEN Outcome("", AbsentValue, 1, None)
  ELSE LET reference_date == strptime(reference_date_str).date
           df12 == df_12m(response, reference_date)
       IN  Outcome("", compute_return(df12, close_col(response)), 1,
                   Some([start_date |-> start_date(reference_date),
                         end_date   |-> end_date(reference_date),
                         df_12m     |-> df12]))

\* one handler for every exception of lines 101-103
except_clause_broad(kind) == "Exception"

\* the except clause of lines 104-109 that catches the exception of a failed
\* fetch: RequestException for a transport error, Exception for the
\* exception of raise_for_status and for that of read_csv
except_clause(kind) == IF kind = "transport" THEN "RequestException" ELSE "Exception"

\* the record the body logs before it returns (the message without its
\* arguments), "" when an exception leaves it before any record
logged(ticker, reference_date_str, response) ==
  IF ~validate_ticker(ticker) THEN "Invalid ticker format"
  ELSE IF validate_date_string(reference_date_str).exc # "" THEN ""
  ELSE IF ~validate_date_string(reference_date_str).ok THEN "Invalid date format"
  ELSE IF strptime(reference_date_str).exc # "" THEN "Failed to parse date"
  ELSE IF response.kind # "table"
       THEN IF except_clause(response.kind) = "RequestException"
            THEN "Network error while fetching"
            ELSE "Data processing error"
  ELSE IF no_data(response) THEN "No data or invalid format"
  ELSE IF date_column_error(response) THEN "Error processing date column"
  ELSE LET df12 == df_12m(response, strptime(reference_date_str).date)
       IN  IF df12 = <<>> THEN "No data in period"
           ELSE IF compute_return(df12, close_col(response)) = AbsentValue
                THEN "Invalid prices"
           ELSE "Successfully calculated return"

\* ------------------------------------------------------------ variables
VARIABLES
  now,               \* the wall clock (datetime.now()), in hours
  last_cache_reset,  \* StooqDataFetcher.last_cache_reset
  cache,             \* the lru_cache of _get_12m_return_stooq_cached,
                     \* least recently used entry first
  ncalls,            \* get_return calls made so far
  last,              \* what the latest get_return call did
  calc_args,         \* arguments of one execution of the cached body
  calc_out,          \* None, or Some(outcome of that execution and its log)
  results_data,      \* argument of calculate_gem_strategy, in dict order
  choice,            \* None, or Some(what calculate_gem_strategy returned)
  results,           \* the dict get_all_etf_returns builds, in insertion order
  attempts,          \* what its get_return calls did, one per iteration
  returned,          \* get_all_etf_returns has returned results
  stamp,             \* for each key used, the number of the call that used it last
  threads,           \* for each concurrent caller of get_return, where it is
                     \* in the call and what it has read and done in it
  born,              \* for each key in the memo, the time its entry was stored
  dropped            \* the age of the entry of the called key that the latest
                     \* call's reset removed, -1 if it removed none

vars == <<now, last_cache_reset, cache, ncalls, last, calc_args, calc_out,
          results_data, choice, results, attempts, returned, stamp, threads,
          born, dropped>>

cache_vars == <<now, last_cache_reset, cache, ncalls, last>>
calc_vars == <<calc_args, calc_out>>
sel_vars == <<results_data, choice>>
batch_vars == <<results, attempts, returned>>
lru_vars == <<stamp>>
conc_vars == <<threads>>
age_vars == <<born, dropped>>
side_vars == <<batch_vars, lru_vars, conc_vars, age_vars>>

\* ------------------------------------------------------------ arguments
Str(chars) == [isstr |-> TRUE, chars |-> chars]
NotStr == [isstr |-> FALSE, chars |-> <<>>]

Ymd(y, m, d) == <<"ymd", y, m, d>>
NotADate == <<"text", 0, 0, 0>>
NoneDate == <<"none", 0, 0, 0>>

TickerArgs ==
  {Str(<<>>), Str(<<"a", ".">>), Str(<<"7">>), Str(<<"a", "$">>), Str(<<"$">>),
   Str(<<"a", "LF">>), Str(<<"LF">>), Str(<<"LF", "a">>), NotStr}

DateArgs ==
  {Ymd(2024, 3, 31), Ymd(2024, 4, 15), Ymd(2024, 13, 40), Ymd(2023, 2, 29),
   Ymd(2024, 0, 10), NotADate, NoneDate}

\* dates of rows around the window of 2024-03-31 (2023-03-01 .. 2024-02-29)
RowDates == {<<2023, 2, 28>>, <<2023, 3, 1>>, <<2023, 9, 15>>, <<2024, 2, 29>>, <<2024, 3, 1>>}

CellValues ==
  {Cell("num", -1), Cell("num", 0), Cell("num", 2), Cell("num", 5),
   Cell("nan", 0), Cell("text", 0)}

\* all sequences of at most n rows of rowset
RECURSIVE RowSeqs(_, _)
RowSeqs(rowset, n) ==
  IF n = 0 THEN {<<>>}
  ELSE LET shorter == RowSeqs(rowset, n - 1)
       IN  shorter \cup
           {Append(s, r) : s \in {t \in shorter : Len(t) = n - 1}, r \in rowset}

DistinctDates(rows) ==
  \A i, j \in 1..Len(rows) : i # j => rows[i].Data # rows[j].Data

CloseRows == {Row(d, c, Cell("num", 3)) : d \in RowDates, c \in CellValues}

GoodRows == <<Row(<<2023, 9, 15>>, Cell("num", 2), Cell("num", 4)),
              Row(<<2023, 3, 1>>, Cell("num", 4), Cell("num", 5))>>

\* tables that differ in their columns and in the state of the date column
ShapeTables ==
  {Table(cols, ok, rows) :
     cols \in SUBSET {"Data", "Close", "Zamkniecie"},
     ok \in BOOLEAN,
     rows \in {<<>>, GoodRows}}

PriceTables ==
  {Table({"Data", "Close"}, TRUE, rows) :
     rows \in {s \in RowSeqs(CloseRows, MaxRows) : DistinctDates(s)}}

FailureKinds == {"transport", "status", "unparseable"}

Failures == {Failure(k) : k \in FailureKinds}

\* the day before (used to place probe rows around a window)
DayBefore(date) ==
  IF date[3] > 1 THEN <<date[1], date[2], date[3] - 1>>
  ELSE IF date[2] > 1 THEN <<date[1], date[2] - 1, DaysInMonth(date[1], date[2] - 1)>>
  ELSE <<date[1] - 1, 12, 31>>

\* every calendar date from 2023-01-01 to the end of MaxYear
AllDates ==
  {date \in (2023..MaxYear) \X (1..12) \X (1..31) :
     date[3] <= DaysInMonth(date[1], date[2])}

ProbeDates(ref) ==
  {DayBefore(start_date(ref)), start_date(ref), end_date(ref), AddOneDay(end_date(ref))}

ProbeTables(ref) ==
  {Table({"Data", "Close"}, TRUE, <<Row(d, Cell("num", 5), Cell("num", 3))>>) :
     d \in ProbeDates(ref)}

Args(ticker, date, response) ==
  [ticker |-> ticker, date |-> date, response |-> response]

CalcInputs ==
  {Args(t, d, r) : t \in TickerArgs, d \in DateArgs,
                   r \in {Failure("transport"), Table({"Data", "Close"}, TRUE, GoodRows)}}
  \cup
  {Args(Str(<<"a", ".">>), d, r) :
     d \in {Ymd(2024, 3, 31), Ymd(2024, 4, 15)},
     r \in Failures \cup ShapeTables \cup PriceTables}
  \cup
  UNION {{Args(Str(<<"a", ".">>), Ymd(ref[1], ref[2], ref[3]), r) : r \in ProbeTables(ref)} :
           ref \in AllDates}

\* --------------------------------------------- one execution of the body
IdleCache ==
  /\ now = 0
  /\ last_cache_reset = 0
  /\ cache = <<>>
  /\ ncalls = 0
  /\ last = [called |-> FALSE]

IdleCalc ==
  /\ calc_args = Args(NotStr, NoneDate, Failure("transport"))
  /\ calc_out = None

IdleSel ==
  /\ results_data = <<>>
  /\ choice = None

IdleBatch ==
  /\ results = <<>>
  /\ attempts = <<>>
  /\ returned = FALSE

IdleLru == stamp = <<>>

\* the callers that may run get_return at the same time
Threads == {1, 2}

\* a caller outside get_return
IdleThread ==
  [pc |-> "idle", key |-> <<>>, observed |-> FALSE, seen_now |-> 0, seen_reset |-> 0,
   cleared |-> FALSE, undid |-> {}, populated |-> FALSE]

IdleConc == threads = [t \in Threads |-> IdleThread]

IdleAge == born = <<>> /\ dropped = -1

IdleSide == IdleBatch /\ IdleLru /\ IdleConc /\ IdleAge

InitCalc ==
  /\ IdleCache
  /\ IdleSel
  /\ IdleSide
  /\ calc_args \in CalcInputs
  /\ calc_out = None

\* _get_12m_return_stooq_cached runs on the chosen arguments
RunBody ==
  /\ calc_out = None
  /\ calc_out' = Some(get_12m_return_stooq(calc_args.ticker, calc_args.date,
                                          calc_args.response)
                      @@ [log |-> logged(calc_args.ticker, calc_args.date,
                                         calc_args.response)])
  /\ UNCHANGED <<calc_args, cache_vars, sel_vars, side_vars>>

NextCalc == RunBody

SpecCalc == InitCalc /\ [][NextCalc]_vars

\* price tables in which several rows may carry the same date
RepeatTables ==
  {Table({"Data", "Close"}, TRUE, rows) : rows \in RowSeqs(CloseRows, MaxRows)}

AnyCalcInputs ==
  CalcInputs \cup
  {Args(Str(<<"a", ".">>), d, r) :
     d \in {Ymd(2024, 3, 31), Ymd(2024, 4, 15)}, r \in RepeatTables}

InitCalcAny ==
  /\ IdleCache
  /\ IdleSel
  /\ IdleSide
  /\ calc_args \in AnyCalcInputs
  /\ calc_out = None

SpecCalcAny == InitCalcAny /\ [][NextCalc]_vars

\* ------------------------------------------------------------ lru_cache
Entry(ticker, date, value) == [key |-> <<ticker, date>>, value |-> value]

CacheKeys(c) == {c[i].key : i \in 1..Len(c)}

IndexOf(c, key) == CHOOSE i \in 1..Len(c) : c[i].key = key

WithoutIndex(c, i) == SubSeq(c, 1, i - 1) \o SubSeq(c, i + 1, Len(c))

\* only results that carry a return are stored
store_present_only(c, ticker, date, value) ==
  IF value.ret = None THEN c
  ELSE (IF Len(c) >= maxsize THEN Tail(c) ELSE c) \o <<Entry(ticker, date, value)>>

\* a miss that returned: the result is stored as the most recently used
\* entry, the least recently used one leaving when the table is full
store(c, ticker, date, value) ==
  (IF Len(c) >= maxsize THEN Tail(c) ELSE c) \o <<Entry(ticker, date, value)>>

\* the wrapper with a hit that leaves the order of the entries alone
lru_cache_fifo(c, ticker, date, response) ==
  IF <<ticker, date>> \in CacheKeys(c)
  THEN [cache |-> c, hit |-> TRUE,
        out |-> Outcome("", c[IndexOf(c, <<ticker, date>>)].value, 0, None)]
  ELSE LET miss(o) ==
             [cache |-> IF o.exc = "" THEN store(c, ticker, date, o.value) ELSE c,
              hit |-> FALSE, out |-> o]
       IN  miss(get_12m_return_stooq(ticker, date, response))

\* the lru_cache wrapper around the body: a hit returns the stored value and
\* makes the entry the most recently used; a miss runs the body and stores
\* what it returns; an exception passes through and nothing is stored
lru_cache(c, ticker, date, response) ==
  IF <<ticker, date>> \in CacheKeys(c)
  THEN LET i == IndexOf(c, <<ticker, date>>)
       IN  [cache |-> WithoutIndex(c, i) \o <<c[i]>>, hit |-> TRUE,
            out |-> Outcome("", c[i].value, 0, None)]
  ELSE LET miss(o) ==
             [cache |-> IF o.exc = "" THEN store(c, ticker, date, o.value) ELSE c,
              hit |-> FALSE, out |-> o]
       IN  miss(get_12m_return_stooq(ticker, date, response))

\* ------------------------------------------------------------ get_return
\* the table left as it is
cache_clear_noop(c) == c

\* self._get_12m_return_stooq_cached.cache_clear()
cache_clear(c) == <<>>

\* a cache that is never found expired
expired_never(t, reset) == FALSE

\* the comparison taken as "at least TTL"
expired_at_ttl(t, reset) == t - reset >= CACHE_TTL

\* datetime.now() - self.last_cache_reset > self.CACHE_TTL
expired(t, reset) == t - reset > CACHE_TTL

\* the (ticker, reference date) pairs get_return is called with
SpecKeys ==
  {<<Str(<<"a", ".">>), Ymd(2024, 3, 31)>>,
   <<Str(<<"a", ".">>), Ymd(2024, 13, 40)>>,
   <<Str(<<"a", ".">>), NoneDate>>,
   <<Str(<<"a", "$">>), Ymd(2024, 3, 31)>>,
   <<Str(<<"a", "LF">>), Ymd(2024, 3, 31)>>}

ZeroRows == <<Row(<<2023, 3, 1>>, Cell("num", 0), Cell("num", 3))>>

NanRows == <<Row(<<2023, 3, 1>>, Cell("nan", 0), Cell("num", 3))>>

SpecResponses ==
  Failures \cup
  {Table({"Data", "Close"}, TRUE, GoodRows),
   Table({"Data", "Close"}, TRUE, ZeroRows),
   Table({"Data", "Close"}, TRUE, NanRows),
   Table({"Data", "Close"}, TRUE, <<>>),
   Table({"Data"}, TRUE, GoodRows),
   Table({"Close"}, TRUE, GoodRows),
   Table({"Data", "Zamkniecie"}, FALSE, GoodRows)}

\* which outbound outcome a fetch met
ResponseClass(r) ==
  IF r.kind # "table" THEN r.kind
  ELSE IF r.rows = <<>> THEN "empty"
  ELSE IF "Close" \notin r.columns /\ "Zamkniecie" \notin r.columns THEN "no_close"
  ELSE IF "Data" \notin r.columns THEN "no_date_column"
  ELSE IF ~r.dates_ok THEN "bad_date_column"
  ELSE "ok"

Init ==
  /\ IdleCache
  /\ IdleCalc
  /\ IdleSel
  /\ IdleSide

\* time passing with a sweeper that empties the cache once the TTL is over
Tick_sweeping ==
  /\ now < MaxTime
  /\ now' = now + 1
  /\ cache' = IF expired(now + 1, last_cache_reset) THEN cache_clear(cache) ELSE cache
  /\ UNCHANGED <<last_cache_reset, ncalls, last, calc_vars, sel_vars, side_vars>>

\* time passes
Tick ==
  /\ now < MaxTime
  /\ now' = now + 1
  /\ UNCHANGED <<last_cache_reset, cache, ncalls, last, calc_vars, sel_vars, side_vars>>

\* the answer paired with a call that sends no request (it is never read)
Unasked == Failure("transport")

\* get_return(ticker, ref_date_str); response is what the quote source
\* answers if asked, d the time that passes between the two readings of the
\* clock when the cache has expired
get_return(ticker, ref_date_str, response, d) ==
  /\ now + d <= MaxTime
  /\ \E exp \in {expired(now, last_cache_reset)} :
     \E r \in {lru_cache(IF exp THEN cache_clear(cache) ELSE cache,
                         ticker, ref_date_str, response)} :
         /\ exp \/ d = 0
         /\ r.out.fetched > 0 \/ response = Unasked
         /\ now' = now + d
         /\ last_cache_reset' = IF exp THEN now + d ELSE last_cache_reset
         /\ cache' = r.cache
         /\ last' = [called   |-> TRUE,
                     ticker   |-> ticker,
                     date     |-> ref_date_str,
                     at       |-> now,
                     expired  |-> exp,
                     cached   |-> <<ticker, ref_date_str>> \in CacheKeys(cache),
                     entries  |-> Len(cache),
                     hit      |-> r.hit,
                     exc      |-> r.out.exc,
                     value    |-> r.out.value,
                     fetched  |-> r.out.fetched,
                     response |-> IF r.out.fetched > 0 THEN ResponseClass(response)
                                  ELSE "none",
                     after    |-> /\ last.called
                                  /\ last.expired
                                  /\ last.cached
                                  /\ last.fetched = 1,
                     repeat   |-> /\ last.called
                                  /\ last.ticker = ticker
                                  /\ last.date = ref_date_str
                                  /\ last.exc = ""]
  /\ ncalls' = ncalls + 1

\* a get_return call of the run with at most MaxCalls calls
GetReturn(ticker, ref_date_str, response, d) ==
  /\ ncalls < MaxCalls
  /\ get_return(ticker, ref_date_str, response, d)
  /\ UNCHANGED <<calc_vars, sel_vars, side_vars>>

Next ==
  \/ Tick
  \/ \E key \in SpecKeys, response \in SpecResponses, d \in 0..1 :
       GetReturn(key[1], key[2], response, d)

Spec == Init /\ [][Next]_vars

\* ------------------------------------------- the age of the entries
AgeResponses == {Failure("transport"), Table({"Data", "Close"}, TRUE, GoodRows)}

\* a get_return call, with the time each entry was stored recorded
AgeCall(key, response, d) ==
  /\ ncalls < MaxCalls
  /\ get_return(key[1], key[2], response, d)
  /\ born' = [k \in CacheKeys(cache') |-> IF k = key /\ ~last'.hit THEN now' ELSE born[k]]
  /\ dropped' = IF last'.expired /\ key \in CacheKeys(cache) THEN now - born[key] ELSE -1
  /\ UNCHANGED <<calc_vars, sel_vars, batch_vars, lru_vars, conc_vars>>

NextAge ==
  \/ Tick
  \/ \E key \in SpecKeys, response \in AgeResponses, d \in 0..1 : AgeCall(key, response, d)

SpecAge == Init /\ [][NextAge]_vars

\* ------------------------------------------------- the memo at capacity
\* the keys of a run that fills the memo: two tickers, each with the
\* reference dates 2024-03-01, 2024-03-02, ...
NumKeys == maxsize + 2

LruOrder ==
  [i \in 1..NumKeys |->
     <<Str(IF i % 2 = 1 THEN <<"a", ".">> ELSE <<"7", ".">>), Ymd(2024, 3, (i + 1) \div 2)>>]

\* what the quote source answers for a key: one quote on the last day of
\* the key's window, at a price that depends on the ticker
ResponseFor(key) ==
  Table({"Data", "Close"}, TRUE,
        <<Row(end_date(<<key[2][2], key[2][3], key[2][4]>>),
              Cell("num", IF key[1].chars[1] = "a" THEN 5 ELSE 2), Cell("num", 3))>>)

\* keys called again: the least and the most recently used entry, and the
\* first key of the run
RepeatKeys ==
  (IF cache = <<>> THEN {} ELSE {cache[1].key, cache[Len(cache)].key})
  \cup (IF stamp = <<>> THEN {} ELSE {LruOrder[1]})

\* a get_return call within the TTL, with the use of its key recorded; the
\* quote source is asked only when the key is not in the memo
LruCall(key) ==
  /\ get_return(key[1], key[2],
                IF key \in CacheKeys(cache) THEN Unasked ELSE ResponseFor(key), 0)
  /\ stamp' = [k \in DOMAIN stamp \cup {key} |-> IF k = key THEN ncalls + 1 ELSE stamp[k]]
  /\ UNCHANGED <<calc_vars, sel_vars, batch_vars, conc_vars, age_vars>>

\* a call for a key not used before
FreshCall ==
  /\ Cardinality(DOMAIN stamp) < NumKeys
  /\ LruCall(LruOrder[Cardinality(DOMAIN stamp) + 1])

\* a call for a key used before
RepeatCall ==
  /\ ncalls - Cardinality(DOMAIN stamp) < MaxRepeats
  /\ \E key \in RepeatKeys : LruCall(key)

NextLru == FreshCall \/ RepeatCall

SpecLru == Init /\ [][NextLru]_vars

\* ------------------------------------------------ calculate_gem_strategy
\* config.py
EQUITY_ETFS == <<"IWDA", "EIMI", "CNDX">>
BOND_ETFS == <<"IB01", "CBU0">>
Names == {"IWDA", "EIMI", "CNDX", "IB01", "CBU0"}

Range(seq) == {seq[i] : i \in 1..Len(seq)}

\* one item of results_data: the name and the "return" field of its entry
Item(name, ret) == [name |-> name, has_return |-> TRUE, return |-> ret]

\* an item whose entry has no "return" key
ItemWithoutReturn(name) == [name |-> name, has_return |-> FALSE, return |-> None]

\* v["return"] is evaluated for the items whose name is in etfs, and raises
\* KeyError on an entry without the key
key_error(data, etfs) ==
  \E i \in 1..Len(data) : data[i].name \in Range(etfs) /\ ~data[i].has_return

\* the comprehension with an absent return kept as 0
returns_of_absent_as_zero(data, etfs) ==
  LET zero(e) == IF e.return = None THEN [e EXCEPT !.return = <<F(0, 1)>>] ELSE e
      named == SelectSeq(data, LAMBDA e : e.name \in Range(etfs))
  IN  [i \in 1..Len(named) |-> zero(named[i])]

\* {k: v["return"] for k, v in results_data.items()
\*    if k in etfs and v["return"] is not None}, in dict order
returns_of(data, etfs) ==
  SelectSeq(data, LAMBDA e : e.name \in Range(etfs) /\ e.return # None)

\* the scan with a later item replacing an equal one
RECURSIVE max_from_last(_, _)
max_from_last(best, rest) ==
  IF rest = <<>> THEN best
  ELSE max_from_last(IF FloatGE(Head(rest).return[1], best.return[1]) THEN Head(rest) ELSE best,
                     Tail(rest))

\* max(returns, key=returns.get): the first item is kept until a later one
\* compares strictly greater
RECURSIVE max_from(_, _)
max_from(best, rest) ==
  IF rest = <<>> THEN best
  ELSE max_from(IF FloatGT(Head(rest).return[1], best.return[1]) THEN Head(rest) ELSE best,
                Tail(rest))

max_by_return(returns) == max_from(Head(returns), Tail(returns))

Recommendation(kind, name) == [kind |-> kind, name |-> name]

\* the test taken as "not negative"
is_positive_or_zero(best_return) == FloatGE(best_return, F(0, 1))

\* best_equity_return > 0
is_positive(best_return) == FloatGT(best_return, F(0, 1))

\* the function left by an exception of class exc
Raised(exc) == [kind |-> "raise", name |-> exc]

\* a handler that lets the exception through as it is
reraise_unwrapped(exc) == Raised(exc)

\* except Exception as e: raise StrategyCalculationError(...)
reraise(exc) == Raised("StrategyCalculationError")

\* the selection with the bond entries consulted when no equity return is present
calculate_gem_strategy_bonds_first(data, equity_etfs, bond_etfs) ==
  LET equity_returns == returns_of(data, equity_etfs)
      bond_returns == returns_of(data, bond_etfs)
  IN  IF key_error(data, equity_etfs) THEN reraise("KeyError")
      ELSE IF equity_returns # <<>> /\ is_positive(max_by_return(equity_returns).return[1])
           THEN Recommendation("equity", max_by_return(equity_returns).name)
      ELSE IF key_error(data, bond_etfs) THEN reraise("KeyError")
      ELSE IF bond_returns # <<>>
           THEN Recommendation("bond", max_by_return(bond_returns).name)
      ELSE IF equity_returns = <<>> THEN Recommendation("no_equity_data", "")
      ELSE Recommendation("no_bond_data", "")

calculate_gem_strategy(data, equity_etfs, bond_etfs) ==
  LET equity_returns == returns_of(data, equity_etfs)
      bond_returns == returns_of(data, bond_etfs)
  IN  IF key_error(data, equity_etfs) THEN reraise("KeyError")
      ELSE IF equity_returns = <<>> THEN Recommendation("no_equity_data", "")
      ELSE IF is_positive(max_by_return(equity_returns).return[1])
           THEN Recommendation("equity", max_by_return(equity_returns).name)
      ELSE IF key_error(data, bond_etfs) THEN reraise("KeyError")
      ELSE IF bond_returns # <<>>
           THEN Recommendation("bond", max_by_return(bond_returns).name)
      ELSE Recommendation("no_bond_data", "")

\* the "return" fields the return computation produces from two selected rows
ReturnValues ==
  {get_12m_return_stooq(Str(<<"a", ".">>), Ymd(2024, 3, 31),
      Table({"Data", "Close"}, TRUE,
            <<Row(<<2023, 3, 1>>, c1, Cell("num", 3)),
              Row(<<2023, 9, 15>>, c2, Cell("num", 3))>>)).value.ret :
     c1, c2 \in {Cell("num", 0), Cell("num", 2), Cell("num", 5), Cell("nan", 0)}}

DistinctNames(data) ==
  \A i, j \in 1..Len(data) : i # j => data[i].name # data[j].name

RECURSIVE ItemSeqs(_)
ItemSeqs(n) ==
  IF n = 0 THEN {<<>>}
  ELSE LET shorter == ItemSeqs(n - 1)
       IN  shorter \cup
           {Append(s, Item(nm, r)) :
              s \in {t \in shorter : Len(t) = n - 1},
              nm \in Names, r \in ReturnValues}

SelInputs == {data \in ItemSeqs(MaxEntries) : DistinctNames(data)}

InitSel ==
  /\ IdleCache
  /\ IdleCalc
  /\ IdleSide
  /\ results_data \in SelInputs
  /\ choice = None

\* calculate_gem_strategy(results_data, EQUITY_ETFS, BOND_ETFS) runs
Calculate ==
  /\ choice = None
  /\ choice' = Some(calculate_gem_strategy(results_data, EQUITY_ETFS, BOND_ETFS))
  /\ UNCHANGED <<results_data, cache_vars, calc_vars, side_vars>>

NextSel == Calculate

SpecSel == InitSel /\ [][NextSel]_vars

\* mappings in which an entry may lack the "return" key
RECURSIVE AnyItemSeqs(_)
AnyItemSeqs(n) ==
  IF n = 0 THEN {<<>>}
  ELSE LET shorter == AnyItemSeqs(n - 1)
       IN  shorter \cup
           {Append(s, e) :
              s \in {t \in shorter : Len(t) = n - 1},
              e \in {Item(nm, r) : nm \in Names, r \in ReturnValues}
                     \cup {ItemWithoutReturn(nm) : nm \in Names}}

AnyInputs == {data \in AnyItemSeqs(MaxEntries) : DistinctNames(data)}

InitSelAny ==
  /\ IdleCache
  /\ IdleCalc
  /\ IdleSide
  /\ results_data \in AnyInputs
  /\ choice = None

SpecSelAny == InitSelAny /\ [][NextSel]_vars

\* ------------------------------------------- get_return, two callers
\* the keys the concurrent callers ask for
ConcKeys ==
  {<<Str(<<"a", ".">>), Ymd(2024, 3, 31)>>, <<Str(<<"7", ".">>), Ymd(2024, 3, 31)>>}

\* the branch taken with the outcome of the test ignored
after_check_always_clear(exp) == "clear"

\* line 159: the branch taken after the test
after_check(exp) == IF exp THEN "clear" ELSE "lookup"

\* line 159: a caller enters get_return, reads the clock and
\* last_cache_reset, and compares
CheckExpiry(t, key) ==
  /\ threads[t].pc = "idle"
  /\ ncalls < MaxCalls
  /\ threads' = [threads EXCEPT ![t] =
        [pc |-> after_check(expired(now, last_cache_reset)), key |-> key,
         observed |-> expired(now, last_cache_reset),
         seen_now |-> now, seen_reset |-> last_cache_reset,
         cleared |-> FALSE, undid |-> {}, populated |-> FALSE]]
  /\ ncalls' = ncalls + 1
  /\ UNCHANGED <<now, last_cache_reset, cache, last, calc_vars, sel_vars, batch_vars, lru_vars, age_vars>>

\* line 160: cache_clear(); undid records the callers whose call in
\* progress or just finished had stored an entry that this clear removes
ClearCache(t) ==
  /\ threads[t].pc = "clear"
  /\ cache' = cache_clear(cache)
  /\ threads' = [threads EXCEPT ![t].pc = "set", ![t].cleared = TRUE,
                   ![t].undid = {u \in Threads \ {t} :
                                   threads[u].populated /\ threads[u].key \in CacheKeys(cache)}]
  /\ UNCHANGED <<now, last_cache_reset, ncalls, last, calc_vars, sel_vars, batch_vars, lru_vars, age_vars>>

\* line 161: last_cache_reset = datetime.now()
SetReset(t) ==
  /\ threads[t].pc = "set"
  /\ last_cache_reset' = now
  /\ threads' = [threads EXCEPT ![t].pc = "lookup"]
  /\ UNCHANGED <<now, cache, ncalls, last, calc_vars, sel_vars, batch_vars, lru_vars, age_vars>>

\* line 163, the lookup of the lru_cache wrapper: a hit returns, a miss
\* goes on to run the body with the table unlocked
Lookup(t) ==
  /\ threads[t].pc = "lookup"
  /\ IF threads[t].key \in CacheKeys(cache)
     THEN /\ cache' = WithoutIndex(cache, IndexOf(cache, threads[t].key))
                         \o <<cache[IndexOf(cache, threads[t].key)]>>
          /\ threads' = [threads EXCEPT ![t].pc = "idle"]
     ELSE /\ cache' = cache
          /\ threads' = [threads EXCEPT ![t].pc = "body"]
  /\ UNCHANGED <<now, last_cache_reset, ncalls, last, calc_vars, sel_vars, batch_vars, lru_vars, age_vars>>

\* line 163, the miss: the body runs and the wrapper stores what it
\* returned, unless the key has been stored in the meantime
RunAndStore(t, response) ==
  /\ threads[t].pc = "body"
  /\ \E o \in {get_12m_return_stooq(threads[t].key[1], threads[t].key[2], response)} :
       /\ cache' = IF o.exc = "" /\ threads[t].key \notin CacheKeys(cache)
                   THEN store(cache, threads[t].key[1], threads[t].key[2], o.value)
                   ELSE cache
       /\ threads' = [threads EXCEPT ![t].pc = "idle",
                                     ![t].populated = (o.exc = "" /\ threads[t].key \notin CacheKeys(cache))]
  /\ UNCHANGED <<now, last_cache_reset, ncalls, last, calc_vars, sel_vars, batch_vars, lru_vars, age_vars>>

NextConc ==
  \/ Tick
  \/ \E t \in Threads :
       \/ \E key \in ConcKeys : CheckExpiry(t, key)
       \/ ClearCache(t)
       \/ SetReset(t)
       \/ Lookup(t)
       \/ RunAndStore(t, Table({"Data", "Close"}, TRUE, GoodRows))

SpecConc == Init /\ [][NextConc]_vars

\* --------------------------------------------------- get_all_etf_returns
\* config.py: the names of TICKERS, in the order of the dict
TICKERS == <<"IWDA", "EIMI", "CNDX", "IB01", "CBU0">>

\* what a call data_fetcher.get_return(ticker, ref_date_str) can do: return
\* a present value, return the absent one, or raise
FetchOutcomes ==
  {get_12m_return_stooq(Str(<<"a", ".">>), d, r) :
     d \in {Ymd(2024, 3, 31), NoneDate},
     r \in {Table({"Data", "Close"}, TRUE, GoodRows),
            Table({"Data", "Close"}, TRUE, NanRows),
            Failure("transport")}}

\* the entry of lines 40-46 for a call that returned, of lines 50-56 for a
\* call that raised
ResultEntry(name, o) ==
  IF o.exc = ""
  THEN [ticker |-> name, return |-> o.value.ret, start |-> o.value.start,
        end |-> o.value.end, historical_data |-> o.value.hist]
  ELSE [ticker |-> name, return |-> None, start |-> None,
        end |-> None, historical_data |-> None]

\* the loop body with no entry written for a call that raised
store_result_skip_raised(res, name, o) ==
  IF o.exc = "" THEN Append(res, ResultEntry(name, o)) ELSE res

\* results[name] = {...}: the names of TICKERS are distinct, so each
\* assignment adds a key at the end
store_result(res, name, o) == Append(res, ResultEntry(name, o))

InitBatch ==
  /\ IdleCache
  /\ IdleCalc
  /\ IdleSel
  /\ IdleBatch
  /\ IdleLru
  /\ IdleConc
  /\ IdleAge

\* one iteration of "for name, ticker in TICKERS.items()"
NextEtf ==
  /\ ~returned
  /\ Len(attempts) < Len(TICKERS)
  /\ \E o \in FetchOutcomes :
       /\ results' = store_result(results, TICKERS[Len(attempts) + 1], o)
       /\ attempts' = Append(attempts, o)
  /\ UNCHANGED <<returned, cache_vars, calc_vars, sel_vars, lru_vars, conc_vars, age_vars>>

\* return results
ReturnResults ==
  /\ ~returned
  /\ Len(attempts) = Len(TICKERS)
  /\ returned' = TRUE
  /\ UNCHANGED <<results, attempts, cache_vars, calc_vars, sel_vars, lru_vars, conc_vars, age_vars>>

NextBatch == NextEtf \/ ReturnResults

SpecBatch == InitBatch /\ [][NextBatch]_vars

\* ================================================================ claims
\* ------------------------------------------------- notions of the claims
\* the four fields are all absent / all present
FullyAbsent(v) == v.ret = None /\ v.start = None /\ v.end = None /\ v.hist = None
FullyPresent(v) == v.ret # None /\ v.start # None /\ v.end # None /\ v.hist # None

\* a string of one or more characters of [A-Za-z0-9.]
TickerInGrammar(t) ==
  t.isstr /\ Len(t.chars) >= 1 /\ \A i \in 1..Len(t.chars) : InClass(t.chars[i])

\* a string that is a calendar date in the YYYY-MM-DD layout
DateInCalendar(d) ==
  /\ d[1] = "ymd"
  /\ d[2] \in 1..9999
  /\ d[3] \in 1..12
  /\ d[4] >= 1
  /\ d[4] <= (IF d[3] = 2 THEN (IF IsLeap(d[2]) THEN 29 ELSE 28)
              ELSE IF d[3] \in {4, 6, 9, 11} THEN 30 ELSE 31)

IsStringDate(d) == d[1] # "none"

\* days from 0001-01-01 to the date, counted from the calendar
DaysBeforeYear(y) == 365 * (y - 1) + ((y - 1) \div 4) - ((y - 1) \div 100) + ((y - 1) \div 400)

RECURSIVE DaysBeforeMonth(_, _)
DaysBeforeMonth(y, m) ==
  IF m = 1 THEN 0 ELSE DaysBeforeMonth(y, m - 1) + DaysInMonth(y, m - 1)

DayNumber(date) == DaysBeforeYear(date[1]) + DaysBeforeMonth(date[1], date[2]) + date[3]

IsCalendarDate(date) ==
  date[2] \in 1..12 /\ date[3] \in 1..DaysInMonth(date[1], date[2])

\* a get_return call has just been made
Called == ncalls' = ncalls + 1

\* ---------------------------------------------------------------- C1
\* C1: when get_return is called twice in a row with the same arguments and
\* the second call does not reset the cache, the second call returns the
\* value the first returned and sends no request.
C1_CacheIdempotence ==
  [][(Called /\ last'.repeat /\ ~(last'.at - last_cache_reset > CACHE_TTL))
       => (last'.exc = "" /\ last'.fetched = 0 /\ last'.value = last.value)]_vars

\* a repeated call inside the TTL window, after a call that fetched; both for
\* a computed return and for a failed fetch
C1_Witness ==
  /\ last.called /\ last.repeat /\ ~last.expired
  /\ last.hit /\ last.fetched = 0
  /\ validate_ticker(last.ticker) /\ DateInCalendar(last.date)
  /\ now > 0

\* ---------------------------------------------------------------- C2
\* C2 as stated: a call for a cached key made after more than TTL has
\* elapsed since the last reset sends exactly one request.
C2_ExactlyOneFetch ==
  [][Called =>
       /\ (<<last'.ticker, last'.date>> \in CacheKeys(cache)
             /\ now - last_cache_reset > CACHE_TTL)
            => last'.fetched = 1
       /\ (last'.repeat /\ last'.after /\ ~(now - last_cache_reset > CACHE_TTL))
            => last'.fetched = 0]_vars

\* the key passes the validation of the cached body
PassesValidation(ticker, date) ==
  /\ validate_ticker(ticker)
  /\ validate_date_string(date).exc = ""
  /\ validate_date_string(date).ok

\* C2 amended: a call for a cached key made after more than TTL has elapsed
\* since the last reset sends exactly one request when the key passes
\* validation and none when it does not; a further call for the same key
\* right after it (no new expiry) sends none.
C2_OneFetchIfValid ==
  [][Called =>
       /\ (<<last'.ticker, last'.date>> \in CacheKeys(cache)
             /\ now - last_cache_reset > CACHE_TTL)
            => last'.fetched = (IF PassesValidation(last'.ticker, last'.date) THEN 1 ELSE 0)
       /\ (last'.repeat /\ last'.after /\ ~(now - last_cache_reset > CACHE_TTL))
            => last'.fetched = 0]_vars

\* the call right after the fresh fetch of an expired, cached, valid key
C2_Witness ==
  /\ last.called /\ last.repeat /\ last.after
  /\ ~last.expired /\ last.fetched = 0
  /\ PassesValidation(last.ticker, last.date)

\* ---------------------------------------------------------------- C3
\* C3: a get_return call made when now - lastReset > TTL clears every entry
\* of the memo and sets lastReset to the current time before the memo is
\* consulted or populated (so the table then holds at most the requested
\* key, and the call is a miss); a call made when now - lastReset <= TTL
\* clears nothing and leaves lastReset alone; nothing else changes lastReset.
C3_ResetRule ==
  [][/\ Called =>
          IF now - last_cache_reset > CACHE_TTL
          THEN /\ CacheKeys(cache') \subseteq {<<last'.ticker, last'.date>>}
               /\ ~last'.hit
               /\ last_cache_reset' >= now
               /\ last_cache_reset' = now'
          ELSE /\ last_cache_reset' = last_cache_reset
               /\ Len(cache) < maxsize =>
                    \A i \in 1..Len(cache) : \E j \in 1..Len(cache') : cache'[j] = cache[i]
     /\ ~Called => last_cache_reset' = last_cache_reset]_vars

\* an expired call for a cached key found two entries and left one
C3_Witness ==
  /\ last.called /\ last.expired /\ last.cached
  /\ last.entries = 2 /\ Len(cache) = 1
  /\ last_cache_reset > CACHE_TTL

\* ---------------------------------------------------------------- C4
\* C4: for a ticker string outside [A-Za-z0-9.]+ or a date string that is not
\* a calendar date in the YYYY-MM-DD layout, get_return returns the fully
\* absent result and sends no request.
C4_ValidationBeforeIO ==
  (/\ last.called
   /\ last.ticker.isstr /\ IsStringDate(last.date)
   /\ (~TickerInGrammar(last.ticker) \/ ~DateInCalendar(last.date)))
     => (last.exc = "" /\ FullyAbsent(last.value) /\ last.fetched = 0)

\* ---------------------------------------------------------------- C5
\* C5: get_return returns normally for every ticker, every reference-date
\* argument and every outcome of the request, and on a failure the value
\* returned is the fully absent result.
C5_NoEscape ==
  last.called =>
    /\ last.exc = ""
    /\ last.response \notin {"none", "ok"} => FullyAbsent(last.value)

\* ---------------------------------------------------------------- C6
\* C6: every value get_return returns, computed or taken from the memo, and
\* every value held in the memo has its four fields all present or all
\* absent.
C6_JointlyPresent ==
  /\ (last.called /\ last.exc = "") => (FullyAbsent(last.value) \/ FullyPresent(last.value))
  /\ \A i \in 1..Len(cache) : FullyAbsent(cache[i].value) \/ FullyPresent(cache[i].value)

\* a present value served from the memo while an absent one, computed from a
\* table whose price fails the guard, is also held
C6_Witness ==
  /\ last.called /\ last.hit /\ FullyPresent(last.value)
  /\ \E i \in 1..Len(cache) : FullyAbsent(cache[i].value) /\ PassesValidation(cache[i].key[1], cache[i].key[2])

\* ------------------------------------------------------- SpecCalc notions
Ran == calc_out # None
Reached == calc_out # None /\ calc_out[1].window # None
RefDate == <<calc_args.date[2], calc_args.date[3], calc_args.date[4]>>
Rows == calc_args.response.rows
PriceColumn == IF "Close" \in calc_args.response.columns THEN "Close" ELSE "Zamkniecie"

\* rows whose date lies between the two dates, both included
RowsBetween(s, e) ==
  {i \in 1..Len(Rows) : DayNumber(s) <= DayNumber(Rows[i].Data)
                        /\ DayNumber(Rows[i].Data) <= DayNumber(e)}

Earliest(sel) == CHOOSE i \in sel : \A j \in sel : DayNumber(Rows[i].Data) <= DayNumber(Rows[j].Data)
Latest(sel) == CHOOSE i \in sel : \A j \in sel : DayNumber(Rows[i].Data) >= DayNumber(Rows[j].Data)

StrictlyPositive(cell) == cell.k = "num" /\ cell.v > 0

\* ---------------------------------------------------------------- C7
\* C7: a result is present only if the window selects at least one point and
\* the first and the last selected price are both strictly positive; an
\* empty selection, or a first or last price that is <= 0, missing or
\* unconvertible, gives the fully absent result.
C7_PresentOnlyIfPositive ==
  Reached =>
    LET w == calc_out[1].window[1]
        sel == RowsBetween(w.start_date, w.end_date)
    IN  IF sel # {} /\ StrictlyPositive(Rows[Earliest(sel)][PriceColumn])
                    /\ StrictlyPositive(Rows[Latest(sel)][PriceColumn])
        THEN TRUE
        ELSE FullyAbsent(calc_out[1].value)

\* ---------------------------------------------------------------- C8
\* C8: windowEnd is the reference date moved back one calendar month (the
\* same day of the preceding month, or that month's last day), windowStart
\* is the day after windowEnd moved back one calendar year, the window is
\* one year long, and the selection is exactly the rows dated from
\* windowStart to windowEnd, both included.
C8_WindowArithmetic ==
  Reached =>
    LET w == calc_out[1].window[1]
        e == w.end_date
        st == w.start_date
        yearBefore == <<e[1] - 1, e[2],
                        IF e[2] = 2 /\ e[3] = 29 THEN 28 ELSE e[3]>>
    IN  /\ IsCalendarDate(e) /\ IsCalendarDate(st)
        /\ 12 * e[1] + e[2] = 12 * RefDate[1] + RefDate[2] - 1
        /\ e[3] = (IF IsCalendarDate(<<e[1], e[2], RefDate[3]>>) THEN RefDate[3]
                   ELSE DaysInMonth(e[1], e[2]))
        /\ DayNumber(st) = DayNumber(yearBefore) + 1
        /\ DayNumber(e) - DayNumber(st) + 1 \in {365, 366}
        /\ Range(w.df_12m) = {Rows[i] : i \in RowsBetween(st, e)}
        /\ Len(w.df_12m) = Cardinality(RowsBetween(st, e))

\* reference 2024-03-31: the window ends on 29 February 2024 and starts on
\* 1 March 2023, and a row dated on the last day of the window is selected
C8_Witness ==
  /\ Reached
  /\ RefDate = <<2024, 3, 31>>
  /\ calc_out[1].window[1].end_date = <<2024, 2, 29>>
  /\ calc_out[1].window[1].start_date = <<2023, 3, 1>>
  /\ Len(Rows) = 1 /\ Rows[1].Data = <<2024, 2, 29>>
  /\ Len(calc_out[1].window[1].df_12m) = 1

\* ---------------------------------------------------------------- C9
\* C9: when the selection is not empty and the prices of its earliest and
\* latest rows are strictly positive, the value returned carries
\* (lastPrice / firstPrice - 1) * 100.
C9_ReturnFormula ==
  Reached =>
    LET w == calc_out[1].window[1]
        sel == RowsBetween(w.start_date, w.end_date)
    IN  (sel # {} /\ StrictlyPositive(Rows[Earliest(sel)][PriceColumn])
                  /\ StrictlyPositive(Rows[Latest(sel)][PriceColumn]))
        => LET firstPrice == Rows[Earliest(sel)][PriceColumn].v
               lastPrice == Rows[Latest(sel)][PriceColumn].v
               v == calc_out[1].value
           IN  /\ calc_out[1].exc = ""
               /\ v.ret # None
               /\ ~v.ret[1].nan
               /\ v.ret[1].num * firstPrice = (lastPrice - firstPrice) * 100 * v.ret[1].den

\* two selected rows fetched latest first, prices 2 then 5: 150 %
C9_Witness ==
  /\ Reached
  /\ Len(Rows) = 2
  /\ DayNumber(Rows[1].Data) > DayNumber(Rows[2].Data)
  /\ Len(calc_out[1].window[1].df_12m) = 2
  /\ Rows[2].Close = Cell("num", 2) /\ Rows[1].Close = Cell("num", 5)
  /\ calc_out[1].value.ret = Some(F(150, 1))

\* --------------------------------------------------------------- C10
Decided == choice # None

\* positions of the equity entries that carry a return
PresentEquity ==
  {i \in 1..Len(results_data) :
     results_data[i].name \in Range(EQUITY_ETFS) /\ results_data[i].return # None}

ReturnAt(i) == results_data[i].return[1]

\* entry i attains the maximum of the returns at the positions S
AttainsMax(S, i) == i \in S /\ \A j \in S : FloatGE(ReturnAt(i), ReturnAt(j))

PresentBond ==
  {i \in 1..Len(results_data) :
     results_data[i].name \in Range(BOND_ETFS) /\ results_data[i].return # None}

C12_NoEquityData ==
  (Decided /\ PresentEquity = {}) => choice[1] = Recommendation("no_equity_data", "")

\* an equity entry without a return next to a positive bond return
C12_Witness ==
  /\ Decided
  /\ Len(results_data) = 2
  /\ results_data[1] = Item("IWDA", None)
  /\ results_data[2] = Item("IB01", Some(F(150, 1)))
  /\ choice[1].kind = "no_equity_data"

\* --------------------------------------------------------------- C20
\* the first position of S whose return attains the maximum over S
FirstMax(S, i) == AttainsMax(S, i) /\ \A j \in S : AttainsMax(S, j) => i <= j

Reverse(seq) == [i \in 1..Len(seq) |-> seq[Len(seq) + 1 - i]]

\* C20: when the present returns of the set the recommendation is taken from
\* have a maximum, the recommended entry is the first one of the mapping
\* that attains it, and the recommendation is the same with the names of the
\* equity and bond lists in the opposite order.
C20_TieBreak ==
  Decided =>
    /\ (choice[1].kind = "equity" /\ \E j \in PresentEquity : AttainsMax(PresentEquity, j))
         => \E i \in PresentEquity :
              FirstMax(PresentEquity, i) /\ results_data[i].name = choice[1].name
    /\ (choice[1].kind = "bond" /\ \E j \in PresentBond : AttainsMax(PresentBond, j))
         => \E i \in PresentBond :
              FirstMax(PresentBond, i) /\ results_data[i].name = choice[1].name
    /\ choice[1] = calculate_gem_strategy(results_data, Reverse(EQUITY_ETFS), Reverse(BOND_ETFS))

\* two equity entries share the maximum; the mapping lists EIMI first, the
\* equity list IWDA first
C20_Witness ==
  /\ Decided
  /\ Len(results_data) = 2
  /\ results_data[1] = Item("EIMI", Some(F(150, 1)))
  /\ results_data[2] = Item("IWDA", Some(F(150, 1)))
  /\ choice[1] = Recommendation("equity", "EIMI")

\* --------------------------------------------------------------- C13
WellFormed == \A i \in 1..Len(results_data) : results_data[i].has_return

ResultKinds == {"equity", "bond", "no_equity_data", "no_bond_data"}

\* C13: a run of calculate_gem_strategy leaves the mapping as it was; on a
\* mapping whose entries all have the return field it returns one of the four
\* kinds of result and raises nothing; what it raises on any other mapping
\* is StrategyCalculationError and nothing else.
C13_PureAndWrapped ==
  [][(choice = None /\ choice' # None) =>
       /\ results_data' = results_data
       /\ WellFormed => choice'[1].kind \in ResultKinds
       /\ choice'[1].kind \notin ResultKinds => choice'[1] = Raised("StrategyCalculationError")]_vars

\* an equity entry without the return field
C13_Witness ==
  /\ Decided
  /\ Len(results_data) = 2
  /\ results_data[1] = Item("IB01", Some(F(150, 1)))
  /\ results_data[2] = ItemWithoutReturn("IWDA")
  /\ choice[1] = Raised("StrategyCalculationError")

\* --------------------------------------------------------------- C14
EntryAbsent(e) ==
  e.return = None /\ e.start = None /\ e.end = None /\ e.historical_data = None

\* C14: get_all_etf_returns returns one entry per name of TICKERS, in that
\* order, whatever each get_return call did; the entry of a call that raised
\* or returned the absent value has return, start, end and historical data
\* all absent, the entry of any other call carries what the call returned,
\* and a call is made for every name, also after one that failed.
C14_BatchIsolation ==
  /\ Len(results) = Len(attempts)
  /\ returned =>
       /\ Len(attempts) = Len(TICKERS)
       /\ \A i \in 1..Len(TICKERS) :
            /\ results[i].ticker = TICKERS[i]
            /\ (attempts[i].exc # "" \/ attempts[i].value = AbsentValue)
                 => EntryAbsent(results[i])
            /\ attempts[i].exc = ""
                 => /\ results[i].return = attempts[i].value.ret
                    /\ results[i].start = attempts[i].value.start
                    /\ results[i].end = attempts[i].value.end
                    /\ results[i].historical_data = attempts[i].value.hist

\* the second call raises, the third returns the absent value, the fourth a
\* present one
C14_Witness ==
  /\ returned
  /\ attempts[2].exc = "TypeError"
  /\ attempts[3].exc = "" /\ attempts[3].value = AbsentValue
  /\ attempts[4].exc = "" /\ attempts[4].value.ret = Some(F(-50, 1))
  /\ EntryAbsent(results[2])
  /\ results[4].return = Some(F(-50, 1))

\* --------------------------------------------------------------- C16
\* C16: a step that is not a get_return call (time passing) leaves the memo
\* and lastReset as they are; an entry leaves the memo only in a get_return
\* call, made when now - lastReset > TTL or when the memo is full; a call
\* made when now - lastReset > TTL keeps none of the entries it found.
C16_ClearedOnlyByAccess ==
  [][/\ ~Called => (cache' = cache /\ last_cache_reset' = last_cache_reset)
     /\ (\E i \in 1..Len(cache) : cache[i].key \notin CacheKeys(cache'))
          => (Called /\ (now - last_cache_reset > CACHE_TTL \/ Len(cache) >= maxsize))
     /\ (Called /\ now - last_cache_reset > CACHE_TTL)
          => (~last'.hit /\ \A j \in 1..Len(cache') : cache'[j].key = <<last'.ticker, last'.date>>)]_vars

\* the TTL is over and the memo still holds its two entries
C16_Witness ==
  /\ now - last_cache_reset > CACHE_TTL
  /\ Len(cache) = 2

\* --------------------------------------------------------------- C17
Present == Ran /\ FullyPresent(calc_out[1].value)

Perms(n) == {f \in [1..n -> 1..n] : \A i, j \in 1..n : i # j => f[i] # f[j]}

\* the historical series is not empty, ascends by date, holds exactly the
\* selected (date, price) points, starts at the result's start date and
\* ends at its end date, both inside the computed window
SelectedSeries ==
  LET v == calc_out[1].value
      hist == v.hist[1]
      w == calc_out[1].window[1]
      sel == RowsBetween(w.start_date, w.end_date)
  IN  /\ Len(hist) >= 1
      /\ \A i \in 1..(Len(hist) - 1) : DayNumber(hist[i].date) <= DayNumber(hist[i + 1].date)
      /\ Len(hist) = Cardinality(sel)
      /\ \E f \in [1..Len(hist) -> sel] :
           /\ \A i, j \in 1..Len(hist) : i # j => f[i] # f[j]
           /\ \A i \in 1..Len(hist) :
                hist[i] = [date |-> Rows[f[i]].Data, price |-> Rows[f[i]][PriceColumn]]
      /\ v.start[1] = hist[1].date
      /\ v.end[1] = hist[Len(hist)].date
      /\ DayNumber(w.start_date) <= DayNumber(v.start[1])
      /\ DayNumber(v.start[1]) <= DayNumber(v.end[1])
      /\ DayNumber(v.end[1]) <= DayNumber(w.end_date)

\* the same rows fetched in any other order give the same result
OrderFree ==
  \A f \in Perms(Len(Rows)) :
     get_12m_return_stooq(calc_args.ticker, calc_args.date,
        [calc_args.response EXCEPT !.rows = [i \in 1..Len(Rows) |-> Rows[f[i]]]]).value
       = calc_out[1].value

FetchFailure ==
  IF Ran /\ calc_out[1].fetched = 1
        /\ ResponseClass(calc_args.response)
             \in {"transport", "status", "unparseable", "no_close", "empty"}
  THEN ResponseClass(calc_args.response)
  ELSE ""

\* the answers of the quote source that meet one of the five conditions
FailingResponses ==
  {r \in Failures \cup ShapeTables :
     ResponseClass(r) \in {"transport", "status", "unparseable", "no_close", "empty"}}

CalledKey == <<last'.ticker, last'.date>>

\* the entries of the memo other than those of the keys in gone are still there
KeptExcept(gone) ==
  \A i \in 1..Len(cache) :
     cache[i].key \notin gone => \E j \in 1..Len(cache') : cache'[j] = cache[i]

\* C15: the memo never holds more than 32 entries and never two for one
\* key; a call for a key that is not in a full memo removes the entry whose
\* latest use (insertion or hit) is the oldest, and only that one; a call for
\* a key that is in the memo sends no request and returns what the body
\* computes for that very (ticker, date) pair; a call for a key that is not
\* in the memo sends its own request, also when the ticker is there with
\* another date.
C15_BoundedLru ==
  [][Called =>
       /\ Len(cache') <= maxsize
       /\ Cardinality(CacheKeys(cache')) = Len(cache')
       /\ (CalledKey \notin CacheKeys(cache) /\ Len(cache) = maxsize)
            => \E victim \in CacheKeys(cache) :
                 /\ \A k \in CacheKeys(cache) : stamp[victim] <= stamp[k]
                 /\ CacheKeys(cache') = (CacheKeys(cache) \ {victim}) \cup {CalledKey}
                 /\ KeptExcept({victim})
       /\ (CalledKey \notin CacheKeys(cache) /\ Len(cache) < maxsize)
            => /\ CacheKeys(cache') = CacheKeys(cache) \cup {CalledKey}
               /\ KeptExcept({})
       /\ CalledKey \in CacheKeys(cache)
            => /\ last'.hit /\ last'.fetched = 0
               /\ CacheKeys(cache') = CacheKeys(cache)
               /\ KeptExcept({})
               /\ last'.value = get_12m_return_stooq(CalledKey[1], CalledKey[2],
                                                     ResponseFor(CalledKey)).value
       /\ CalledKey \notin CacheKeys(cache)
            => (~last'.hit /\ last'.fetched = 1)]_vars

\* the memo was filled, its first key was hit, and the next new key pushed
\* out the second key
C15_Witness ==
  /\ Len(cache) = maxsize
  /\ ncalls = maxsize + 2
  /\ stamp[LruOrder[1]] = maxsize + 1
  /\ LruOrder[1] \in CacheKeys(cache)
  /\ LruOrder[2] \notin CacheKeys(cache)
  /\ LruOrder[maxsize + 1] \in CacheKeys(cache)

\* --------------------------------------------------------------- C18
\* C18: with two callers inside get_return, a caller clears the memo only
\* after its own reading of the clock and of lastReset showed
\* now - lastReset > TTL, and a caller that has not cleared has lost no
\* other caller's entry; nothing orders one caller's test and clear with
\* respect to the other caller's steps (C18_Witness is the interleaving
\* with two clears for one expiry, the second removing the entry the other
\* caller has just stored).
C18_ClearFollowsOwnCheck ==
  \A t \in Threads :
     /\ threads[t].cleared
          => (threads[t].observed /\ threads[t].seen_now - threads[t].seen_reset > CACHE_TTL)
     /\ threads[t].pc \in {"clear", "set"} => threads[t].observed
     /\ threads[t].undid # {} => threads[t].cleared

\* both callers saw the same expiry, both cleared, and the clear of one
\* removed the entry the other had stored after its own clear
C18_Witness ==
  \E t, u \in Threads :
     /\ t # u
     /\ threads[t].observed /\ threads[u].observed
     /\ threads[t].seen_reset = threads[u].seen_reset
     /\ threads[t].cleared /\ threads[u].cleared
     /\ threads[u].populated
     /\ u \in threads[t].undid
     /\ threads[u].key \notin CacheKeys(cache)
     /\ now - last_cache_reset <= CACHE_TTL

\* --------------------------------------------------------------- C21
\* C21: whenever the body reaches the division of line 145 (the result is
\* present), the first selected price is strictly positive and safe_divide
\* does not take its zero-denominator branch.
C21_FallbackUnreachable ==
  Present =>
    LET w == calc_out[1].window[1]
        sel == RowsBetween(w.start_date, w.end_date)
    IN  /\ StrictlyPositive(Rows[Earliest(sel)][PriceColumn])
        /\ ~FloatEQ0(first_price(w.df_12m, PriceColumn))

\* --------------------------------------------------------------- C22
\* the value the memo holds for a key
StoredValue(c, key) == c[IndexOf(c, key)].value

\* C22: a call that returns the absent result leaves it in the memo under
\* its key; while the entry is there and the call does not reset the cache, a
\* call for that key is a hit that returns the absent result and sends no
\* request, whatever the quote source would answer; the entry leaves the memo
\* only in a call that resets the cache or finds the memo full; no call
\* sends more than one request.
C22_FailuresMemoized ==
  [][Called =>
       /\ last'.fetched <= 1
       /\ (last'.exc = "" /\ FullyAbsent(last'.value))
            => /\ CalledKey \in CacheKeys(cache')
               /\ FullyAbsent(StoredValue(cache', CalledKey))
       /\ (/\ CalledKey \in CacheKeys(cache)
           /\ FullyAbsent(StoredValue(cache, CalledKey))
           /\ ~(now - last_cache_reset > CACHE_TTL))
            => /\ last'.hit /\ last'.fetched = 0 /\ last'.exc = ""
               /\ FullyAbsent(last'.value)
               /\ \A r \in SpecResponses :
                    LET again == lru_cache(cache, CalledKey[1], CalledKey[2], r)
                    IN  again.hit /\ again.out.fetched = 0 /\ FullyAbsent(again.out.value)
       /\ \A i \in 1..Len(cache) :
            (FullyAbsent(cache[i].value) /\ cache[i].key \notin CacheKeys(cache'))
              => (now - last_cache_reset > CACHE_TTL \/ Len(cache) >= maxsize)]_vars

\* a fetch for a valid key failed, another key was asked for, and the third
\* call finds the failure in the memo
C22_Witness ==
  /\ ncalls = 3
  /\ last.called /\ last.hit /\ ~last.repeat /\ ~last.expired
  /\ last.fetched = 0
  /\ FullyAbsent(last.value)
  /\ TickerInGrammar(last.ticker) /\ PassesValidation(last.ticker, last.date)
  /\ Len(cache) = 2

\* --------------------------------------------------------------- C23
\* C23: with one call at a time, a call that returns a memoized result
\* returns one stored at most TTL before the call; the entries a lookup finds
\* were all stored at or after lastReset, as are those it leaves; and at the
\* lookup now - lastReset <= TTL.
C23_StalenessBound ==
  [][Called =>
       /\ now' - last_cache_reset' <= CACHE_TTL
       /\ last'.hit => /\ now - born[CalledKey] <= CACHE_TTL
                       /\ born[CalledKey] >= last_cache_reset'
       /\ ~(now - last_cache_reset > CACHE_TTL)
            => \A k \in CacheKeys(cache) : born[k] >= last_cache_reset
       /\ \A k \in CacheKeys(cache') : born'[k] >= last_cache_reset']_vars

\* a hit on an entry exactly TTL old
C23_Witness ==
  /\ last.called /\ last.hit /\ last.at = now
  /\ now - born[<<last.ticker, last.date>>] = CACHE_TTL

\* --------------------------------------------------------------- C24
\* C24: whether a call for a key in the memo finds its entry or fetches anew
\* depends on now - lastReset alone: beyond TTL the entry is dropped however
\* recently it was stored (and a key that passes validation is fetched
\* again), otherwise it is a hit however old the entry is; an entry is never
\* older than now - lastReset.
C24_ExpiryFromLastReset ==
  [][(Called /\ CalledKey \in CacheKeys(cache)) =>
       /\ now - born[CalledKey] <= now - last_cache_reset
       /\ IF now - last_cache_reset > CACHE_TTL
          THEN /\ ~last'.hit
               /\ dropped' = now - born[CalledKey]
               /\ PassesValidation(CalledKey[1], CalledKey[2]) => last'.fetched = 1
          ELSE last'.hit /\ last'.fetched = 0 /\ dropped' = -1]_vars

\* an entry fetched one hour before is dropped by a reset and fetched again
C24_Witness ==
  /\ last.called /\ last.expired /\ last.cached
  /\ last.fetched = 1
  /\ PassesValidation(last.ticker, last.date)
  /\ dropped = 1
  /\ dropped + 1 < CACHE_TTL

====
